---- MODULE Spec2Model ----
(***************************************************************************)
(* Model of music_evolver_streamlit_app.py: the theory tables, the         *)
(* scale/chord resolver, the melody evolver and the composition driver.    *)
(*                                                                         *)
(* Times are in hundredths of a second (1.0 s = 100, 0.25 s = 25,          *)
(* 0.9 s = 90, 0.2 s = 20), so that the float arithmetic of the driver is  *)
(* integer arithmetic here.  Every np.random.choice is a nondeterministic  *)
(* choice over the list it draws from.                                     *)
(*                                                                         *)
(* inst.notes and notes_plot only grow, by appends.  The state keeps their *)
(* lengths (n_notes, n_plot), the part appended for the current chord      *)
(* (block, plot) and the largest start time among the notes appended       *)
(* before that part (prior_start): a note, once appended, is never changed,*)
(* so what holds of every block as it is appended holds of the final list. *)
(*                                                                         *)
(* `melody` is the list of that name in the running frame: the driver's    *)
(* list (lines 76, 86) outside evolve_melody, and evolve_melody's own list *)
(* (line 50) during the call, which reads the driver's list only through   *)
(* prev[-1] on entry (line 51) and whose result replaces it on return.     *)
(*                                                                         *)
(* A behaviour is one call: of generate_music, stepped through its loops,  *)
(* or of chord_to_notes, make_scale or evolve_melody on its own, with the  *)
(* values the random source will return listed in the call.                *)
(***************************************************************************)
EXTENDS Integers, Sequences, FiniteSets, TLC

VARIABLES
    \* ---- generate_music: one call ----
    args,         \* the arguments: genre, key, mode, emotion, generations
    pc,           \* position of the call
    tempo,        \* line 70
    scale_notes,  \* line 71
    chord_prog,   \* line 72
    time,         \* line 75, line 91
    melody,       \* the list named `melody` of the running frame (lines 76, 86; line 50 inside evolve_melody)
    gen,          \* line 78: the loop variable of range(generations)
    ci,           \* line 79: position in chord_prog (0-based)
    prev_note,    \* evolve_melody's cursor (lines 51, 58)
    i,            \* evolve_melody's loop counter (line 52)
    block,        \* the notes appended to inst.notes for the current chord
    prior_start,  \* the largest start among the notes of inst.notes before block (0 when none)
    n_notes,      \* len(inst.notes)
    plot,         \* the entries appended to notes_plot for the current chord
    n_plot,       \* len(notes_plot)
    \* ---- one call of a helper on its own ----
    call,         \* the helper called and its arguments
    ret           \* what it returned (<<>> while the call is pending)

vars == <<args, pc, tempo, scale_notes, chord_prog, time, melody, gen, ci,
          prev_note, i, block, prior_start, n_notes, plot, n_plot, call, ret>>

gmVars == <<args, pc, tempo, scale_notes, chord_prog, time, melody, gen, ci,
            prev_note, i, block, prior_start, n_notes, plot, n_plot>>

(***************************************************************************)
(* Bounds of the model                                                     *)
(***************************************************************************)
MaxGenerations == 2    \* generate_music is called with generations in -1..MaxGenerations
MaxLen == 3            \* evolve_melody alone is called with length in -1..MaxLen
MaxScaleLen == 3       \* ... on the real scales and on every list of 1..MaxScaleLen test pitches

(***************************************************************************)
(* Sequence helpers (Python list operations)                               *)
(***************************************************************************)
Range(s) == {s[k] : k \in 1..Len(s)}

Last(s) == s[Len(s)]

\* list.index(x), 0-based: the first position holding x
IndexOf(s, x) == (CHOOSE k \in 1..Len(s) : s[k] = x /\ \A j \in 1..(k - 1) : s[j] # x) - 1

\* dict.get(k, default)
DictGet(d, k, default) == IF k \in DOMAIN d THEN d[k] ELSE default

Min(a, b) == IF a < b THEN a ELSE b

Max(a, b) == IF a > b THEN a ELSE b

(***************************************************************************)
(* Theory tables                                                           *)
(***************************************************************************)
GENRE_PROGRESSIONS ==
    [Pop       |-> << <<"I", "V", "vi", "IV">>, <<"I", "vi", "IV", "V">> >>,
     Jazz      |-> << <<"ii", "V", "I", "vi">> >>,
     Rock      |-> << <<"I", "IV", "V", "I">>, <<"I", "bVII", "IV", "I">> >>,
     Classical |-> << <<"I", "IV", "V", "I">>, <<"I", "V", "vi", "iii", "IV", "I">> >>]

KEYS == <<"C", "C#", "D", "D#", "E", "F", "F#", "G", "G#", "A", "A#", "B">>

MODES == <<"Major", "Minor">>

EMOTIONS == <<"Happy", "Sad", "Mysterious", "Excited">>

scale_degrees_major ==
    [I |-> 0, ii |-> 2, iii |-> 4, IV |-> 5, V |-> 7, vi |-> 9, bVII |-> 10]

scale_degrees_minor ==
    [i |-> 0, ii |-> 2, III |-> 3, iv |-> 5, v |-> 7, VI |-> 8, bVII |-> 10]

\* pretty_midi.note_name_to_number(key + str(octave)): 12 * (octave + 1) plus
\* the pitch class of the note name; KEYS lists the names in pitch-class order.
note_name_to_number(key, octave) == 12 * (octave + 1) + IndexOf(KEYS, key)

(***************************************************************************)
(* Scale/chord resolver                                                    *)
(***************************************************************************)
chord_to_notes_high_octave(chord, key, mode) ==
    LET scale      == IF mode = "Major" THEN scale_degrees_major ELSE scale_degrees_minor
        intervals  == IF mode = "Major" THEN <<0, 4, 7>> ELSE <<0, 3, 7>>
        root_pitch == note_name_to_number(key, 9)
        deg        == IF chord \in DOMAIN scale THEN chord ELSE "I"
        root       == (root_pitch + DictGet(scale, deg, 0)) % 128
    IN  [k \in 1..Len(intervals) |-> root + intervals[k]]

chord_to_notes_other_mode(chord, key, mode) ==
    LET scale      == IF mode = "Major" THEN scale_degrees_major ELSE scale_degrees_minor
        other      == IF mode = "Major" THEN scale_degrees_minor ELSE scale_degrees_major
        intervals  == IF mode = "Major" THEN <<0, 4, 7>> ELSE <<0, 3, 7>>
        root_pitch == note_name_to_number(key, 4)
        offset     == IF chord \in DOMAIN scale THEN scale[chord] ELSE DictGet(other, chord, 0)
        root       == (root_pitch + offset) % 128
    IN  [k \in 1..Len(intervals) |-> root + intervals[k]]

chord_to_notes(chord, key, mode) ==
    LET scale      == IF mode = "Major" THEN scale_degrees_major ELSE scale_degrees_minor
        intervals  == IF mode = "Major" THEN <<0, 4, 7>> ELSE <<0, 3, 7>>
        root_pitch == note_name_to_number(key, 4)
        deg        == IF chord \in DOMAIN scale THEN chord ELSE "I"
        root       == (root_pitch + DictGet(scale, deg, 0)) % 128
    IN  [k \in 1..Len(intervals) |-> root + intervals[k]]

emotion_tempo_default_happy(emotion) ==
    DictGet([Happy |-> 120, Sad |-> 70, Mysterious |-> 90, Excited |-> 140], emotion, 120)

emotion_tempo(emotion) ==
    DictGet([Happy |-> 120, Sad |-> 70, Mysterious |-> 90, Excited |-> 140], emotion, 100)

make_scale(key, mode) ==
    LET major_intervals == <<0, 2, 4, 5, 7, 9, 11>>
        minor_intervals == <<0, 2, 3, 5, 7, 8, 10>>
        base            == note_name_to_number(key, 4)
        intervals       == IF mode = "Major" THEN major_intervals ELSE minor_intervals
    IN  [k \in 1..Len(intervals) |-> (base + intervals[k]) % 128]

(***************************************************************************)
(* Melody evolver                                                          *)
(***************************************************************************)
\* np.random.choice([-2, -1, 0, 1, 2])
STEPS == {-2, -1, 0, 1, 2}

\* line 51: the cursor evolve_melody starts from; `choice` is the draw of
\* np.random.choice(scale_notes), used only when prev is empty
evolve_cursor_first(prev, choice) == IF prev # <<>> THEN Head(prev) ELSE choice

evolve_cursor(prev, choice) == IF prev # <<>> THEN Last(prev) ELSE choice

\* lines 54-56: one iteration of the walk, from cursor prev_n with draw step
evolve_step_semitone(prev_n, scale, step) == prev_n + step

evolve_step_wrap(prev_n, scale, step) ==
    LET idx      == IF prev_n \in Range(scale) THEN IndexOf(scale, prev_n) ELSE 0
        next_idx == (idx + step) % Len(scale)
    IN  scale[next_idx + 1]

evolve_step(prev_n, scale, step) ==
    LET idx      == IF prev_n \in Range(scale) THEN IndexOf(scale, prev_n) ELSE 0
        next_idx == Min(Max(idx + step, 0), Len(scale) - 1)
    IN  scale[next_idx + 1]

\* lines 52-58: the loop, from cursor prev_n, on the draws in order;
\* range(length) is empty for length <= 0
RECURSIVE evolve_walk(_, _, _, _)
evolve_walk(prev_n, scale, length, draws) ==
    IF length <= 0 THEN <<>>
    ELSE LET next_note == evolve_step(prev_n, scale, Head(draws))
         IN  <<next_note>> \o evolve_walk(next_note, scale, length - 1, Tail(draws))

\* lines 48-59; draws are the length step draws, choice the cursor draw
evolve_melody(prev, scale, length, choice, draws) ==
    evolve_walk(evolve_cursor(prev, choice), scale, length, draws)

(***************************************************************************)
(* Composition driver                                                      *)
(***************************************************************************)
\* line 72: GENRE_PROGRESSIONS.get(genre, [["I", "IV", "V", "I"]])
genre_progressions(genre) == DictGet(GENRE_PROGRESSIONS, genre, << <<"I", "IV", "V", "I">> >>)

\* line 72: ...[0]
first_progression_last(genre) == Last(genre_progressions(genre))

first_progression(genre) == Head(genre_progressions(genre))

\* line 86: length=4
MelodyLength == 4

\* line 83: pretty_midi.Note(velocity=70, pitch=int(n), start=time, end=time+0.9)
chord_note(n, t) == [velocity |-> 70, pitch |-> n, start |-> t, end |-> t + 90]

\* line 88: pretty_midi.Note(velocity=100, pitch=int(n), start=time+idx*0.25,
\* end=time+idx*0.25+0.2), idx 0-based
melody_note(n, t, idx) ==
    [velocity |-> 100, pitch |-> n, start |-> t + idx * 25, end |-> t + idx * 25 + 20]

\* line 90: (time+idx*0.25, n)
plot_entry(n, t, idx) == <<t + idx * 25, n>>

\* line 91: time += 1
next_time_half(t) == t + 50

next_time(t) == t + 100

\* the largest start among the notes of a list, and m when it is empty
MaxStart(notes, m) ==
    IF notes = <<>> THEN m
    ELSE LET k == CHOOSE a \in 1..Len(notes) :
                      \A b \in 1..Len(notes) : notes[b].start <= notes[a].start
         IN  Max(m, notes[k].start)

(***************************************************************************)
(* The calls the model makes                                               *)
(***************************************************************************)
Genres == {"Pop", "Jazz", "Rock", "Classical", "Blues"}

Emotions == Range(EMOTIONS) \cup {"Angry"}

BaseRequest(g) ==
    [genre |-> "Pop", key |-> "C", mode |-> "Major", emotion |-> "Happy", generations |-> g]

\* generate_music(genre, key, mode, emotion, generations): the base request with
\* its genre, its emotion or its key and mode varied, and one request whose
\* genre and emotion are both unknown
Requests ==
    UNION {   {[BaseRequest(g) EXCEPT !.genre = x] : x \in Genres}
         \cup {[BaseRequest(g) EXCEPT !.emotion = e] : e \in Emotions}
         \cup {[BaseRequest(g) EXCEPT !.key = k, !.mode = m] :
                   k \in {"C", "B"}, m \in Range(MODES)}
         \cup {[BaseRequest(g) EXCEPT !.genre = "Blues", !.emotion = "Angry"]}
         : g \in -1..MaxGenerations}

NoArgs == [genre |-> "", key |-> "", mode |-> "", emotion |-> "", generations |-> 0]

ChordSymbols == DOMAIN scale_degrees_major \cup DOMAIN scale_degrees_minor \cup {"VII", ""}

\* chord_to_notes(chord, key, mode)
ChordCalls ==
    [op : {"chord_to_notes"}, chord : ChordSymbols, key : Range(KEYS), mode : Range(MODES)]

\* make_scale(key, mode)
ScaleCalls == [op : {"make_scale"}, key : Range(KEYS), mode : Range(MODES)]

TestPitches == {60, 62}

TestScales ==
    {make_scale("C", "Major"), make_scale("A", "Minor")}
        \cup UNION {[1..n -> TestPitches] : n \in 1..MaxScaleLen}

\* the prev lists tried on a scale: empty, ending in a scale pitch, ending in a
\* pitch that is not in the scale (61), and of two pitches
TestPrevs(scale) ==
    {<<>>} \cup {<<p>> : p \in Range(scale) \cup {61}} \cup {<<61, p>> : p \in Range(scale)}

\* evolve_melody(prev, scale_notes, length) with what the random source will
\* return: choice for np.random.choice(scale_notes) (drawn only when prev is
\* empty) and draws for the steps
EvolveCall(sc, p, n, c, d) ==
    [op |-> "evolve_melody", prev |-> p, scale |-> sc, length |-> n, choice |-> c, draws |-> d]

\* lines 69-77
GenerateBegin ==
    /\ pc = "call"
    /\ tempo' = emotion_tempo(args.emotion)
    /\ scale_notes' = make_scale(args.key, args.mode)
    /\ chord_prog' = first_progression(args.genre)
    /\ time' = 0
    /\ \E choice \in Range(make_scale(args.key, args.mode)) : melody' = <<choice>>
    /\ gen' = 0
    /\ ci' = 0
    /\ pc' = "loop"
    /\ UNCHANGED <<args, prev_note, i, block, prior_start, n_notes, plot, n_plot, call, ret>>

\* lines 78-84 for the next chord, and the call of line 86 up to line 51
AddChord ==
    /\ pc = "loop"
    /\ gen < args.generations
    /\ LET chord_notes == chord_to_notes(chord_prog[ci + 1], args.key, args.mode)
       IN  /\ block' = [k \in 1..Len(chord_notes) |-> chord_note(chord_notes[k], time)]
           /\ n_notes' = n_notes + Len(chord_notes)
    /\ prior_start' = MaxStart(block, prior_start)
    /\ plot' = <<>>
    /\ \E choice \in Range(scale_notes) : prev_note' = evolve_cursor(melody, choice)
    /\ melody' = <<>>
    /\ i' = 0
    /\ pc' = "evolve"
    /\ UNCHANGED <<args, tempo, scale_notes, chord_prog, time, gen, ci, n_plot, call, ret>>

\* lines 52-58: one iteration of evolve_melody's loop
EvolveStep ==
    /\ pc = "evolve"
    /\ i < MelodyLength
    /\ \E step \in STEPS :
          LET next_note == evolve_step(prev_note, scale_notes, step)
          IN  /\ melody' = Append(melody, next_note)
              /\ prev_note' = next_note
    /\ i' = i + 1
    /\ UNCHANGED <<args, pc, tempo, scale_notes, chord_prog, time, gen, ci, block,
                   prior_start, n_notes, plot, n_plot, call, ret>>

\* line 59, the assignment of line 86, lines 87-91, and the loop headers
EmitMelody ==
    /\ pc = "evolve"
    /\ i >= MelodyLength
    /\ block' = block \o [k \in 1..Len(melody) |-> melody_note(melody[k], time, k - 1)]
    /\ n_notes' = n_notes + Len(melody)
    /\ plot' = [k \in 1..Len(melody) |-> plot_entry(melody[k], time, k - 1)]
    /\ n_plot' = n_plot + Len(melody)
    /\ time' = next_time(time)
    /\ IF ci + 1 < Len(chord_prog)
       THEN ci' = ci + 1 /\ gen' = gen
       ELSE ci' = 0 /\ gen' = gen + 1
    /\ pc' = "loop"
    /\ UNCHANGED <<args, tempo, scale_notes, chord_prog, melody, prev_note, i,
                   prior_start, call, ret>>

\* lines 92-93, once range(generations) is exhausted
GenerateReturn ==
    /\ pc = "loop"
    /\ gen >= args.generations
    /\ pc' = "done"
    /\ UNCHANGED <<args, tempo, scale_notes, chord_prog, time, melody, gen, ci, prev_note,
                   i, block, prior_start, n_notes, plot, n_plot, call, ret>>

GmIdle ==
    /\ tempo = 0 /\ scale_notes = <<>> /\ chord_prog = <<>> /\ time = 0 /\ melody = <<>>
    /\ gen = 0 /\ ci = 0 /\ prev_note = 0 /\ i = 0 /\ block = <<>> /\ prior_start = 0
    /\ n_notes = 0 /\ plot = <<>> /\ n_plot = 0

\* ---- one call of a helper ----
ChordToNotesCall ==
    /\ call.op = "chord_to_notes"
    /\ ret = <<>>
    /\ ret' = <<chord_to_notes(call.chord, call.key, call.mode)>>
    /\ UNCHANGED <<gmVars, call>>

MakeScaleCall ==
    /\ call.op = "make_scale"
    /\ ret = <<>>
    /\ ret' = <<make_scale(call.key, call.mode)>>
    /\ UNCHANGED <<gmVars, call>>

EvolveMelodyCall ==
    /\ call.op = "evolve_melody"
    /\ ret = <<>>
    /\ ret' = <<evolve_melody(call.prev, call.scale, call.length, call.choice, call.draws)>>
    /\ UNCHANGED <<gmVars, call>>

Init ==
    /\ GmIdle
    /\ ret = <<>>
    /\ \/ args \in Requests /\ pc = "call" /\ call = [op |-> "none"]
       \/ args = NoArgs /\ pc = "idle" /\ call \in ChordCalls
       \/ args = NoArgs /\ pc = "idle" /\ call \in ScaleCalls
       \/ /\ args = NoArgs /\ pc = "idle"
          /\ \E sc \in TestScales, n \in -1..MaxLen :
                \E p \in TestPrevs(sc), d \in [1..Max(n, 0) -> STEPS] :
                   \E c \in (IF p = <<>> THEN Range(sc) ELSE {sc[1]}) :
                      call = EvolveCall(sc, p, n, c, d)

Next ==
    \/ GenerateBegin
    \/ AddChord
    \/ EvolveStep
    \/ EmitMelody
    \/ GenerateReturn
    \/ ChordToNotesCall
    \/ MakeScaleCall
    \/ EvolveMelodyCall

Spec == Init /\ [][Next]_vars

(***************************************************************************)
(* Properties                                                              *)
(***************************************************************************)
Returned(op) == call.op = op /\ ret # <<>>

\* the cursor an evolve_melody call starts from, read off its arguments
EntryCursor == IF call.prev # <<>> THEN call.prev[Len(call.prev)] ELSE call.choice

\* position of pitch n in scale sc as list.index finds it, 0 when n is not in sc
ScaleIdx(sc, n) == IF \E k \in 1..Len(sc) : sc[k] = n THEN IndexOf(sc, n) ELSE 0

Clamp(x, lo, hi) == IF x < lo THEN lo ELSE IF x > hi THEN hi ELSE x

Abs(x) == IF x < 0 THEN -x ELSE x

\* chord slots completed so far by the running generate_music call
SlotsDone == gen * Len(chord_prog) + ci

\* the first progression GENRE_PROGRESSIONS lists for the genre of the request
ListedFirst ==
    IF args.genre \in DOMAIN GENRE_PROGRESSIONS
    THEN GENRE_PROGRESSIONS[args.genre][1]
    ELSE <<"I", "IV", "V", "I">>

\* C1: evolve_melody(prev, scale, L) returns exactly L pitches, each an element
\* of scale, for every non-empty scale, every L >= 0, every draw sequence and
\* every prev; a prev whose last pitch is not in scale is walked from index 0.
C1_EvolveLengthAndScale ==
    (Returned("evolve_melody") /\ call.length >= 0) =>
        /\ Len(ret[1]) = call.length
        /\ \A k \in 1..Len(ret[1]) : \E j \in 1..Len(call.scale) : ret[1][k] = call.scale[j]
        /\ (/\ call.length >= 1
            /\ call.prev # <<>>
            /\ \A j \in 1..Len(call.scale) : call.scale[j] # EntryCursor)
           => ret[1][1] = call.scale[Clamp(call.draws[1], 0, Len(call.scale) - 1) + 1]

C1_Witness ==
    /\ Returned("evolve_melody")
    /\ call.length = 3
    /\ Len(call.scale) = 7
    /\ call.prev = <<61>>
    /\ call.draws = <<2, 2, -1>>
    /\ ret[1] = <<call.scale[3], call.scale[5], call.scale[4]>>

\* C6: the melody walk clamps and never wraps: each returned pitch is
\* scale[min(max(idx + step, 0), len(scale) - 1)], idx being the index of the
\* cursor; from the last index a positive step gives the last scale pitch and
\* from index 0 a negative step gives the first.
C6_WalkClamps ==
    Returned("evolve_melody") =>
        \A k \in 1..Len(ret[1]) :
            LET cursor == IF k = 1 THEN EntryCursor ELSE ret[1][k - 1]
                idx    == ScaleIdx(call.scale, cursor)
                top    == Len(call.scale) - 1
                step   == call.draws[k]
            IN  /\ ret[1][k] = call.scale[Clamp(idx + step, 0, top) + 1]
                /\ (idx = top /\ step > 0) => ret[1][k] = call.scale[top + 1]
                /\ (idx = 0 /\ step < 0) => ret[1][k] = call.scale[1]

C6_Witness ==
    /\ Returned("evolve_melody")
    /\ Len(call.scale) = 7
    /\ call.prev = <<call.scale[7]>>
    /\ call.length = 3
    /\ call.draws = <<2, 1, -2>>
    /\ ret[1] = <<call.scale[7], call.scale[7], call.scale[5]>>

\* C4: for every key, both modes and every chord symbol that is not in the
\* mode's degree table, chord_to_notes returns the triad of the mode's tonic
\* symbol ("I" in Major, "i" in Minor).
C4_UnknownChordIsTonic ==
    (/\ Returned("chord_to_notes")
     /\ call.chord \notin (IF call.mode = "Major" THEN DOMAIN scale_degrees_major
                                                 ELSE DOMAIN scale_degrees_minor))
    => LET tonic == 12 * 5 + IndexOf(KEYS, call.key)
       IN  /\ ret[1] = chord_to_notes(IF call.mode = "Major" THEN "I" ELSE "i",
                                      call.key, call.mode)
           /\ ret[1] = <<tonic, tonic + (IF call.mode = "Major" THEN 4 ELSE 3), tonic + 7>>

C4_Witness ==
    /\ Returned("chord_to_notes")
    /\ call.chord = "vi"
    /\ call.mode = "Minor"
    /\ call.key = "A"
    /\ ret[1] = <<69, 72, 76>>

\* C10: every pitch is a valid absolute pitch in [0,127]: make_scale returns 7
\* pitches in range, chord_to_notes returns 3 pitches in range for all keys,
\* modes and chord symbols, and so is every pitch generate_music emits.
C10_PitchesInRange ==
    /\ Returned("make_scale") =>
          Len(ret[1]) = 7 /\ \A k \in 1..Len(ret[1]) : ret[1][k] \in 0..127
    /\ Returned("chord_to_notes") =>
          Len(ret[1]) = 3 /\ \A k \in 1..Len(ret[1]) : ret[1][k] \in 0..127
    /\ \A k \in 1..Len(block) : block[k].pitch \in 0..127

C10_Witness ==
    /\ Returned("chord_to_notes")
    /\ call.chord = "bVII"
    /\ call.key = "B"
    /\ ret[1][3] = 88

\* C7: generate_music does not fail on an unknown genre or emotion: for a genre
\* not in GENRE_PROGRESSIONS the progression is ["I","IV","V","I"], for an
\* emotion not in the tempo table the tempo is 100, and the four known emotions
\* give 120, 70, 90, 140; the call runs on to its return.
C7_UnknownGenreEmotionDefaults ==
    /\ pc \in {"loop", "evolve", "done"} =>
          /\ tempo = CASE args.emotion = "Happy" -> 120
                       [] args.emotion = "Sad" -> 70
                       [] args.emotion = "Mysterious" -> 90
                       [] args.emotion = "Excited" -> 140
                       [] OTHER -> 100
          /\ args.genre \notin DOMAIN GENRE_PROGRESSIONS => chord_prog = <<"I", "IV", "V", "I">>
    /\ pc \in {"call", "loop", "evolve"} => ENABLED Next

C7_Witness ==
    /\ pc = "done"
    /\ args.genre = "Blues"
    /\ args.emotion = "Angry"
    /\ args.generations = 1
    /\ tempo = 100
    /\ n_notes = 28

\* C2: for generations g >= 1 generate_music emits exactly 7*g*p notes, p the
\* length of the first progression listed for the genre; the notes are g*p
\* blocks of 3 chord notes then 4 melody notes, and the chord pitches of block k
\* are chord_to_notes(progression[k mod p], key, mode).  Pop/C/Major/Happy with
\* g = 1 gives tempo 120 and 28 notes.
C2_NoteCountAndBlocks ==
    LET p == Len(ListedFirst)
        g == args.generations
    IN  /\ (pc = "done" /\ g >= 1) => n_notes = 7 * g * p
        /\ (pc = "done" /\ args = BaseRequest(1)) => (tempo = 120 /\ n_notes = 28)
        /\ pc = "evolve" =>
              /\ n_notes = 7 * SlotsDone + 3
              /\ Len(block) = 3
              /\ [k \in 1..3 |-> block[k].pitch]
                    = chord_to_notes(ListedFirst[(SlotsDone % p) + 1], args.key, args.mode)
        /\ (pc \in {"loop", "done"} /\ n_notes > 0) =>
              /\ n_notes = 7 * SlotsDone
              /\ Len(block) = 7
              /\ \A k \in 1..3 : block[k].velocity = 70 /\ block[k].end = block[k].start + 90
              /\ \A k \in 4..7 : block[k].velocity = 100 /\ block[k].end = block[k].start + 20
              /\ [k \in 1..3 |-> block[k].pitch]
                    = chord_to_notes(ListedFirst[((SlotsDone - 1) % p) + 1], args.key, args.mode)
              /\ [k \in 1..4 |-> block[k + 3].pitch] = melody
        /\ (pc \in {"loop", "done"} /\ SlotsDone = 1 /\ args.key = "C" /\ args.mode = "Major"
               /\ args.genre = "Pop")
              => [k \in 1..3 |-> block[k].pitch] = <<60, 64, 67>>

C2_Witness ==
    /\ pc = "done"
    /\ args.genre = "Classical"
    /\ args.generations = 2
    /\ n_notes = 56
    /\ [k \in 1..3 |-> block[k].pitch] = chord_to_notes("I", "C", "Major")

\* C3: notes are emitted in chronological order: no note starts before a note
\* emitted earlier; the 3 chord notes of a slot start at the time cursor t and
\* come before the slot's 4 melody notes, which start at t, t+0.25, t+0.5,
\* t+0.75 in that order; the cursor advances by exactly 1.0 per chord, across
\* chord and generation boundaries.
C3_ChronologicalEmission ==
    /\ \A a \in 1..Len(block) :
          /\ block[a].start >= prior_start
          /\ \A b \in a..Len(block) : block[a].start <= block[b].start
    /\ pc \in {"loop", "evolve", "done"} => time = 100 * SlotsDone
    /\ pc = "evolve" =>
          /\ Len(block) = 3
          /\ \A k \in 1..3 : block[k].start = time /\ block[k].velocity = 70
    /\ (pc \in {"loop", "done"} /\ n_notes > 0) =>
          /\ Len(block) = 7
          /\ \A k \in 1..3 : block[k].start = time - 100 /\ block[k].velocity = 70
          /\ \A k \in 4..7 :
                block[k].start = time - 100 + 25 * (k - 4) /\ block[k].velocity = 100
          /\ prior_start = IF SlotsDone = 1 THEN 0 ELSE time - 125

C3_Witness ==
    /\ pc = "loop"
    /\ gen = 1
    /\ ci = 1
    /\ time = 500
    /\ prior_start = 375
    /\ [k \in 1..7 |-> block[k].start] = <<400, 400, 400, 400, 425, 450, 475>>

\* C9: the melody is one continuous walk over the whole run: the first
\* evolve_melody call starts from the seed pitch, every later call from the
\* last melody pitch emitted for the previous chord (also across generations),
\* the re-seed branch for an empty prev is never taken, and consecutive melody
\* pitches (and the seed and the first pitch) are at most 2 scale indices apart.
C9_ContinuousWalk ==
    [][/\ (pc = "call" /\ pc' = "loop") =>
             Len(melody') = 1 /\ melody'[1] \in Range(scale_notes')
       /\ (pc = "loop" /\ pc' = "evolve") =>
             /\ melody # <<>>
             /\ prev_note' = melody[Len(melody)]
             /\ n_plot = 0 => Len(melody) = 1
             /\ n_plot > 0 => melody[Len(melody)] = plot[Len(plot)][2]
       /\ (pc = "evolve" /\ pc' = "evolve") =>
             /\ melody' = Append(melody, prev_note')
             /\ melody # <<>> => prev_note = melody[Len(melody)]
             /\ prev_note \in Range(scale_notes) /\ prev_note' \in Range(scale_notes)
             /\ Abs(IndexOf(scale_notes, prev_note') - IndexOf(scale_notes, prev_note)) <= 2
       /\ (pc = "evolve" /\ pc' = "loop") =>
             /\ melody' = melody
             /\ [k \in 1..Len(plot') |-> plot'[k][2]] = melody
             /\ n_plot' = n_plot + 4
      ]_vars

C9_Witness ==
    /\ pc = "evolve"
    /\ gen = 1
    /\ ci = 0
    /\ n_plot = 16
    /\ i = 4
    /\ prev_note = melody[4]
    /\ Abs(IndexOf(scale_notes, melody[1]) - IndexOf(scale_notes, melody[2])) = 2

\* C5: a non-positive iteration count is reported as an error: generate_music
\* with generations <= 0 and evolve_melody with length <= 0 do not return a
\* result.
C5_NonPositiveCountRejected ==
    /\ pc = "done" => args.generations >= 1
    /\ Returned("evolve_melody") => call.length >= 1

====
